---- MODULE Spec2Model ----
(***************************************************************************)
(* A model of fpu.py: the start-up selection of the rounding-control       *)
(* backend, the scoped executors down(f)/up(f) over the rounding-mode      *)
(* register, and the helpers min, max, power, intrepr and nudge.           *)
(*                                                                         *)
(* A register word is a pair <<hi, lo>> of 16-bit halves (0x80000000 does  *)
(* not fit a 32-bit integer).  A float is a record [cls, k]: cls is "fin", *)
(* "inf" or "nan"; a finite value is k units of 2^(EMin - NMant), the      *)
(* smallest subnormal of a binary format with NMant fraction bits (the     *)
(* double has 52); k of an infinity is its sign.                           *)
(***************************************************************************)
EXTENDS Integers, Sequences, FiniteSets, TLC

VARIABLES
    host,          \* the machine the module is imported on
    fpu,           \* the rounding-control register (one per process)
    fpu0,          \* history: the register when the program started
    ipc,           \* position of the module-level initialization
    fe_upward,     \* global _fe_upward
    fe_downward,   \* global _fe_downward
    fegetround,    \* what global _fegetround is bound to
    fesetround,    \* what global _fesetround is bound to
    controlfp,     \* what global _controlfp is bound to
    warned,        \* number of warnings emitted
    tried,         \* history: the strategies run, in order
    failed,        \* history: the strategies that raised
    stack,         \* per thread: the active down/up frames, innermost last
    last,          \* per thread: observation of the latest executor exit
    rl,            \* min/max: the argument sequence
    rres,          \* min/max: outcome of the call
    px, pn,        \* power: the arguments
    pres,          \* power: outcome of the call
    fx, fdir,      \* intrepr/nudge: the arguments
    fres           \* intrepr/nudge: outcome of the call

startVars == <<host, fpu0, ipc, fe_upward, fe_downward, fegetround, fesetround,
               controlfp, warned, tried, failed>>
bindVars == <<fe_upward, fe_downward, fegetround, fesetround, controlfp>>
execVars == <<stack, last>>
reduceVars == <<rl, rres>>
powerVars == <<px, pn, pres>>
floatVars == <<fx, fdir, fres>>
vars == <<startVars, fpu, execVars, reduceVars, powerVars, floatVars>>

(***************************************************************************)
(* Bounds of the model.                                                    *)
(***************************************************************************)
MaxDepth == 2      \* nesting of executors inside a computation
MaxLen == 3        \* length of a sequence given to min/max
MaxN == 6          \* exponent given to power
MaxX == 4          \* magnitude of the base given to power
NMant == 3         \* fraction bits of the float format (finfo.nmant)

(***************************************************************************)
(* Register words and the two native control primitives.                   *)
(***************************************************************************)
W(hi, lo) == <<hi, lo>>
Unbound == <<>>

RECURSIVE BitAnd(_, _)
BitAnd(a, b) ==
    IF a = 0 \/ b = 0 THEN 0
    ELSE (a % 2) * (b % 2) + 2 * BitAnd(a \div 2, b \div 2)

\* msvcrt _controlfp(new, mask): the bits of mask take new's value; the new
\* control word is returned.
ControlFpWord(cw, new, mask) ==
    W((cw[1] - BitAnd(cw[1], mask[1])) + BitAnd(new[1], mask[1]),
      (cw[2] - BitAnd(cw[2], mask[2])) + BitAnd(new[2], mask[2]))

MSVC_MASK == 768           \* 0x300
MSVC_UP == 512             \* 0x0200
MSVC_DOWN == 256           \* 0x0100
X86_UP == 2048             \* 0x0800
X86_DOWN == 1024           \* 0x0400
PPC_UP == 2
PPC_DOWN == 3
SPARC_UP_HI == 32768       \* 0x80000000 = 0x8000 * 2^16
SPARC_DOWN_HI == 49152     \* 0xC0000000 = 0xC000 * 2^16

\* The codes _init_libm selects for a processor name.
LibmCodes(processor) ==
    IF processor = "powerpc" THEN [up |-> W(0, PPC_UP), down |-> W(0, PPC_DOWN)]
    ELSE IF processor = "sparc"
         THEN [up |-> W(SPARC_UP_HI, 0), down |-> W(SPARC_DOWN_HI, 0)]
         ELSE [up |-> W(0, X86_UP), down |-> W(0, X86_DOWN)]

\* The codes _init_msvc selects.
MsvcCodes == [up |-> W(0, MSVC_UP), down |-> W(0, MSVC_DOWN)]

\* _fegetround(): the value read (neither backend changes the register:
\* _controlfp(0, 0) has an empty mask).
FeGetRound(backend, cw) ==
    IF backend = "msvc" THEN ControlFpWord(cw, W(0, 0), W(0, 0)) ELSE cw

\* _fesetround(flag): the register afterwards.
FeSetRound(backend, cw, flag) ==
    IF backend = "msvc" THEN ControlFpWord(cw, flag, W(0, MSVC_MASK)) ELSE flag

\* The rounding-mode field of a register word, as the backend encodes it.
ModeOf(backend, cw) ==
    IF backend = "msvc" THEN W(0, BitAnd(cw[2], MSVC_MASK)) ELSE cw

(***************************************************************************)
(* The hosts: what platform.processor() answers, the words the register    *)
(* can hold at start, and which native library can be loaded at all.       *)
(***************************************************************************)
Hosts == {"powerpc", "sparc", "x86", "win"}

Processor(h) ==
    CASE h = "powerpc" -> "powerpc"
      [] h = "sparc" -> "sparc"
      [] h = "x86" -> "x86_64"
      [] OTHER -> "Intel64 Family 6"

StartWords(h) ==
    CASE h = "powerpc" -> {W(0, 0), W(0, 1), W(0, 2), W(0, 3)}
      [] h = "sparc" -> {W(0, 0), W(16384, 0), W(32768, 0), W(49152, 0)}
      [] h = "x86" -> {W(0, 0), W(0, 1024), W(0, 2048), W(0, 3072)}
      [] OTHER -> {W(9, 31), W(9, 287), W(9, 543), W(9, 799)}

HasLibm(h) == h # "win"
HasMsvcrt(h) == h = "win"

(***************************************************************************)
(* Floats: a binary format with NMant fraction bits, exponents EMin..EMax, *)
(* subnormals, infinities and NaN, rounding to nearest, ties to even.      *)
(***************************************************************************)
EMax == NMant + 3
EMin == 1 - EMax
UnitShift == NMant - EMin                 \* 1.0 is 2^UnitShift units
MaxK == (2^(NMant + 1) - 1) * 2^(EMax - EMin)

Fin(k) == [cls |-> "fin", k |-> k]
Inf(s) == [cls |-> "inf", k |-> s]
NaN == [cls |-> "nan", k |-> 0]
Zero == Fin(0)

Abs(i) == IF i < 0 THEN -i ELSE i
Sign(i) == IF i < 0 THEN -1 ELSE 1

RECURSIVE BitLen(_)
BitLen(a) == IF a = 0 THEN 0 ELSE 1 + BitLen(a \div 2)

\* The finite values of the format, in units.
FiniteKs ==
    {s * m * 2^t : s \in {-1, 1}, m \in 0..(2^(NMant + 1) - 1), t \in 0..(EMax - EMin)}

FiniteFloats == {Fin(k) : k \in FiniteKs}

\* Position of a non-NaN float on the extended real line, in units.
Ord(a) == IF a.cls = "inf" THEN a.k * (2 * MaxK) ELSE a.k

\* Python's x < y, x > y and x != y on floats.
FLt(a, b) == IF a.cls = "nan" \/ b.cls = "nan" THEN FALSE ELSE Ord(a) < Ord(b)
FGt(a, b) == FLt(b, a)
FNe(a, b) == IF a.cls = "nan" \/ b.cls = "nan" THEN TRUE ELSE Ord(a) # Ord(b)

\* The float nearest to the exact value n / 2^j units, ties to even;
\* beyond the largest finite value the result is an infinity.
RoundNearestEven(n, j) ==
    LET a == Abs(n)
        excess == BitLen(a) - (NMant + 1)
        sh == IF excess > j THEN excess ELSE j
        q == 2^sh
        lo == a \div q
        rem == a % q
        up == sh > 0 /\ (2 * rem > q \/ (2 * rem = q /\ lo % 2 = 1))
        k == (IF up THEN lo + 1 ELSE lo) * 2^(sh - j)
    IN IF k > MaxK THEN Inf(Sign(n)) ELSE Fin(Sign(n) * k)

\* Float multiplication and addition.
FMul(a, b) ==
    IF a.cls = "nan" \/ b.cls = "nan" THEN NaN
    ELSE IF a.cls = "inf" \/ b.cls = "inf"
         THEN (IF a.k = 0 \/ b.k = 0 THEN NaN ELSE Inf(Sign(a.k) * Sign(b.k)))
         ELSE RoundNearestEven(a.k * b.k, UnitShift)

FAdd(a, b) ==
    IF a.cls = "nan" \/ b.cls = "nan" THEN NaN
    ELSE IF a.cls = "inf" /\ b.cls = "inf"
         THEN (IF a.k = b.k THEN a ELSE NaN)
         ELSE IF a.cls = "inf" THEN a
         ELSE IF b.cls = "inf" THEN b
         ELSE RoundNearestEven(a.k + b.k, 0)

\* The float of a Python integer, and int(x) of a finite float (truncation).
IntToFloat(i) == RoundNearestEven(i * 2^UnitShift, 0)
IntOf(x) == Sign(x.k) * (Abs(x.k) \div 2^UnitShift)

\* The float 2.0 ** i, exact within the format.
FPow2(i) == Fin(2^(i - (EMin - NMant)))

\* math.frexp(x): <<m, e>> with x = m * 2^e and 0.5 <= |m| < 1; zero,
\* infinities and NaN come back with exponent 0.
Frexp(x) ==
    IF x.cls # "fin" \/ x.k = 0 THEN <<x, 0>>
    ELSE LET b == BitLen(Abs(x.k))
         IN <<Fin(IF UnitShift >= b THEN x.k * 2^(UnitShift - b)
                  ELSE Sign(x.k) * (Abs(x.k) \div 2^(b - UnitShift))),
              b + EMin - NMant>>

\* finfo(float).
FinfoNmant == NMant
FinfoEps == FPow2(-NMant)
FinfoEpsneg == FPow2(-(NMant + 1))

(***************************************************************************)
(* isnan, ensure_nonan, min, max.                                          *)
(***************************************************************************)
Return(v) == [kind |-> "return", val |-> v]
Raise(c) == [kind |-> "raise", val |-> c]

isnan(x) == FNe(x, x)

\* ensure_nonan with the test left out.
ensure_nonan_unchecked(x) == Return(x)

ensure_nonan(x) == IF isnan(x) THEN Raise("NanException") ELSE Return(x)

\* class NanException(ValueError).
IsSubclass(c, d) ==
    \/ c = d
    \/ c = "NanException" /\ d \in {"ValueError", "Exception"}
    \/ c = "ValueError" /\ d = "Exception"

\* The base class in place of NanException.
HandlerClassBase == "ValueError"

\* The class named by the except clause of min and max.
HandlerClass == "NanException"

\* __builtin__.min / __builtin__.max over the generator
\* (ensure_nonan(x) for x in l): the first item is kept, a later item
\* replaces it when it compares less (greater); an exception of the
\* generator ends the reduction; no item at all is a ValueError.
RECURSIVE BuiltinReduce(_, _, _, _, _)
BuiltinReduce(op, l, i, have, best) ==
    IF i > Len(l)
    THEN (IF have THEN Return(best) ELSE Raise("ValueError"))
    ELSE LET item == ensure_nonan(l[i])
         IN IF item.kind = "raise" THEN item
            ELSE IF ~have THEN BuiltinReduce(op, l, i + 1, TRUE, item.val)
            ELSE IF (IF op = "min" THEN FLt(item.val, best) ELSE FGt(item.val, best))
                 THEN BuiltinReduce(op, l, i + 1, TRUE, item.val)
                 ELSE BuiltinReduce(op, l, i + 1, TRUE, best)

\* min(l) and max(l): the reduction inside try / except NanException.
Reduce(op, l) ==
    LET r == BuiltinReduce(op, l, 1, FALSE, NaN)
    IN IF r.kind = "raise" /\ IsSubclass(r.val, HandlerClass) THEN Return(NaN) ELSE r

(***************************************************************************)
(* power(x, n) for integers x and n.                                       *)
(***************************************************************************)
\* The new digit put behind the others.
PushDigitBehind(y, l) == Append(l, y)

\* l = (y, l): the new digit goes in front.
PushDigit(y, l) == <<y>> \o l

\* Lines 140-143: the binary digits of n, most significant first in l.
RECURSIVE Digits(_, _)
Digits(n, l) == IF n > 0 THEN Digits(n \div 2, PushDigit(n % 2, l)) ELSE l

\* Lines 144-151: square, and multiply by x at a digit 1.
RECURSIVE SquareAndMultiply(_, _, _)
SquareAndMultiply(l, result, x) ==
    IF l = <<>> THEN result
    ELSE SquareAndMultiply(Tail(l),
                           IF Head(l) = 1 THEN result * result * x ELSE result * result,
                           x)

\* Python 2's 1 / p on integers: floor division.
OneOver(p) ==
    IF p = 0 THEN Raise("ZeroDivisionError")
    ELSE IF p = 1 THEN Return(1)
    ELSE IF p > 1 THEN Return(0)
    ELSE Return(-1)

Power(x, n) ==
    IF n < 0 THEN OneOver(SquareAndMultiply(Digits(-n, <<>>), 1, x))
    ELSE Return(SquareAndMultiply(Digits(n, <<>>), 1, x))

(***************************************************************************)
(* intrepr(x) and nudge(x, dir).                                           *)
(***************************************************************************)
\* One bit short.
MantissaScaleShort == 2^FinfoNmant

\* The integer 2 ** (finfo.nmant + 1) the significand is multiplied by.
MantissaScale == 2^(FinfoNmant + 1)

\* One short.
ExponentShiftShort == FinfoNmant

\* The amount finfo.nmant + 1 the exponent is lowered by.
ExponentShift == FinfoNmant + 1

Intrepr(x) ==
    LET me == Frexp(x)
    IN <<IntOf(FMul(me[1], IntToFloat(MantissaScale))), me[2] - ExponentShift>>

\* f = dir * 2 ** (math.frexp(x)[1] - 1), as the float it enters the
\* product with: an integer power of two for an exponent >= 0, the float
\* 2.0 ** i otherwise; both are exact.
NudgeScale(x, dir) ==
    LET i == Frexp(x)[2] - 1
    IN IF i >= 0 THEN IntToFloat(dir * 2^i) ELSE FMul(IntToFloat(dir), FPow2(i))

Nudge(x, dir) ==
    IF dir \notin {-1, 1} THEN Raise("AssertionError")
    ELSE LET f == NudgeScale(x, dir)
             y == FAdd(x, FMul(f, FinfoEpsneg))
         IN IF FNe(y, x) THEN Return(y) ELSE Return(FAdd(x, FMul(f, FinfoEps)))


(***************************************************************************)
(* Module-level initialization: the loop over _init_libm, _init_msvc.      *)
(***************************************************************************)
LoadErrors == {"ImportError", "OSError", "AttributeError"}

\* The handler of the loop is a bare "except:": it catches every exception.
StartupHandlerCatches(exc) == TRUE

\* The loop without its break: the next strategy, then the else clause.
AfterSuccessNoBreak(strategy) ==
    IF strategy = "libm" THEN "msvc_resolve" ELSE "warn"

\* Where the loop goes after a strategy returned without error: "break".
AfterSuccess(strategy) == "loaded"

\* Where the loop goes after a strategy raised: the handler passes and the
\* next strategy is tried; after the last one the loop's else clause runs.
AfterFailure(strategy, exc) ==
    IF ~StartupHandlerCatches(exc) THEN "aborted"
    ELSE IF strategy = "libm" THEN "msvc_resolve" ELSE "warn"

\* _init_libm, lines 18-25: the codes are assigned before anything can fail.
LibmSelectCodes ==
    /\ ipc = "libm_codes"
    /\ tried' = Append(tried, "libm")
    /\ fe_upward' = LibmCodes(Processor(host)).up
    /\ fe_downward' = LibmCodes(Processor(host)).down
    /\ ipc' = "libm_load"
    /\ UNCHANGED <<host, fpu0, fegetround, fesetround, controlfp, warned, failed>>
    /\ UNCHANGED <<fpu, execVars, reduceVars, powerVars, floatVars>>

\* _init_libm, lines 27-29: ctypes is imported and libm is loaded.
LibmLoad ==
    /\ ipc = "libm_load"
    /\ HasLibm(host)
    /\ ipc' = "libm_bind"
    /\ UNCHANGED <<host, fpu0, bindVars, warned, tried, failed>>
    /\ UNCHANGED <<fpu, execVars, reduceVars, powerVars, floatVars>>

LibmLoadFails ==
    /\ ipc = "libm_load"
    /\ \E exc \in LoadErrors :
         ipc' = AfterFailure("libm", exc)
    /\ failed' = failed \cup {"libm"}
    /\ UNCHANGED <<host, fpu0, bindVars, warned, tried>>
    /\ UNCHANGED <<fpu, execVars, reduceVars, powerVars, floatVars>>

\* _init_libm, line 30: both entry points are looked up, then both are bound.
LibmBind ==
    /\ ipc = "libm_bind"
    /\ fegetround' = "libm"
    /\ fesetround' = "libm"
    /\ ipc' = AfterSuccess("libm")
    /\ UNCHANGED <<host, fpu0, fe_upward, fe_downward, controlfp, warned, tried, failed>>
    /\ UNCHANGED <<fpu, execVars, reduceVars, powerVars, floatVars>>

LibmBindFails ==
    /\ ipc = "libm_bind"
    /\ ipc' = AfterFailure("libm", "AttributeError")
    /\ failed' = failed \cup {"libm"}
    /\ UNCHANGED <<host, fpu0, bindVars, warned, tried>>
    /\ UNCHANGED <<fpu, execVars, reduceVars, powerVars, floatVars>>

\* _init_msvc, lines 37-39: _controlfp is resolved from msvcrt.
MsvcResolve ==
    /\ ipc = "msvc_resolve"
    /\ HasMsvcrt(host)
    /\ tried' = Append(tried, "msvc")
    /\ controlfp' = "msvcrt"
    /\ ipc' = "msvc_codes"
    /\ UNCHANGED <<host, fpu0, fe_upward, fe_downward, fegetround, fesetround, warned, failed>>
    /\ UNCHANGED <<fpu, execVars, reduceVars, powerVars, floatVars>>

MsvcResolveFails ==
    /\ ipc = "msvc_resolve"
    /\ tried' = Append(tried, "msvc")
    /\ \E exc \in LoadErrors :
         ipc' = AfterFailure("msvc", exc)
    /\ failed' = failed \cup {"msvc"}
    /\ UNCHANGED <<host, fpu0, bindVars, warned>>
    /\ UNCHANGED <<fpu, execVars, reduceVars, powerVars, floatVars>>

\* _init_msvc, line 40.
MsvcSelectCodes ==
    /\ ipc = "msvc_codes"
    /\ fe_upward' = MsvcCodes.up
    /\ fe_downward' = MsvcCodes.down
    /\ ipc' = "msvc_bind"
    /\ UNCHANGED <<host, fpu0, fegetround, fesetround, controlfp, warned, tried, failed>>
    /\ UNCHANGED <<fpu, execVars, reduceVars, powerVars, floatVars>>

\* _init_msvc, lines 41-44: the two wrappers around _controlfp are defined.
MsvcBind ==
    /\ ipc = "msvc_bind"
    /\ fegetround' = "msvc"
    /\ fesetround' = "msvc"
    /\ ipc' = AfterSuccess("msvc")
    /\ UNCHANGED <<host, fpu0, fe_upward, fe_downward, controlfp, warned, tried, failed>>
    /\ UNCHANGED <<fpu, execVars, reduceVars, powerVars, floatVars>>

\* The loop's else clause, lines 53-55.
Warn ==
    /\ ipc = "warn"
    /\ warned' = warned + 1
    /\ ipc' = "loaded"
    /\ UNCHANGED <<host, fpu0, bindVars, tried, failed>>
    /\ UNCHANGED <<fpu, execVars, reduceVars, powerVars, floatVars>>

Startup ==
    \/ LibmSelectCodes
    \/ LibmLoad
    \/ LibmLoadFails
    \/ LibmBind
    \/ LibmBindFails
    \/ MsvcResolve
    \/ MsvcResolveFails
    \/ MsvcSelectCodes
    \/ MsvcBind
    \/ Warn

(***************************************************************************)
(* The scoped executors down(f) and up(f).                                 *)
(***************************************************************************)
Threads == {1, 2}
Executors == {"down", "up"}
Results == {"r1", "r2"}

NoOutcome == [kind |-> "none", val |-> "none"]

NewFrame(fn, cw) ==
    [fn |-> fn, pc |-> "get", saved |-> Unbound, fout |-> NoOutcome,
     entry |-> cw, log |-> <<>>, modeAtF |-> Unbound,
     intruded |-> FALSE, sawOther |-> FALSE]

NoExit ==
    [seen |-> FALSE, fn |-> "none", bound |-> FALSE, depth |-> 0,
     entry |-> Unbound, saved |-> Unbound, exitMode |-> Unbound,
     out |-> NoOutcome, fout |-> NoOutcome, log |-> <<>>, modeAtF |-> Unbound,
     intruded |-> FALSE, sawOther |-> FALSE]

ExitOf(fr, depth, out, cw) ==
    [seen |-> TRUE, fn |-> fr.fn, bound |-> fegetround # "unbound", depth |-> depth,
     entry |-> fr.entry, saved |-> fr.saved, exitMode |-> cw,
     out |-> out, fout |-> fr.fout, log |-> fr.log, modeAtF |-> fr.modeAtF,
     intruded |-> fr.intruded, sawOther |-> fr.sawOther]

Top(t) == stack[t][Len(stack[t])]
HasTop(t, pc) == stack[t] # <<>> /\ Top(t).pc = pc
Pop(s) == SubSeq(s, 1, Len(s) - 1)

\* Some thread other than t has set the mode and not restored it yet.
OtherInside(t) ==
    \E u \in Threads \ {t} :
        \E i \in 1..Len(stack[u]) : stack[u][i].pc \in {"call", "f", "finally"}

\* The stacks after thread t wrote the register and its own stack became
\* newStack: a frame of another thread that has set its mode and not yet
\* invoked its computation records the intrusion (history).
AfterWrite(t, newStack) ==
    [u \in Threads |->
        IF u = t THEN newStack
        ELSE IF stack[u] # <<>> /\ Top(u).pc = "call"
             THEN [stack[u] EXCEPT ![Len(stack[u])].intruded = TRUE]
             ELSE stack[u]]

\* The two directions exchanged.
DirCodeSwapped(fn) == IF fn = "down" THEN fe_upward ELSE fe_downward

\* The code the executor hands to _fesetround before the computation.
DirCode(fn) == IF fn = "down" THEN fe_downward ELSE fe_upward

\* A call of down(f) or up(f): from the top level, or from inside a running
\* computation, to at most maxDepth nested executors.
Call(t, fn, maxDepth) ==
    /\ ipc = "loaded"
    /\ Len(stack[t]) < maxDepth
    /\ IF stack[t] = <<>> THEN TRUE ELSE Top(t).pc = "f"
    /\ stack' = [stack EXCEPT ![t] = Append(@, NewFrame(fn, fpu))]
    /\ UNCHANGED <<startVars, fpu, last, reduceVars, powerVars, floatVars>>

\* Line 85 / 95: saved = _fegetround().  With no backend bound the name is
\* undefined: NameError leaves the executor before the try statement.
GetRound(t) ==
    /\ HasTop(t, "get")
    /\ IF fegetround = "unbound"
       THEN /\ stack' = [stack EXCEPT ![t] = Pop(@)]
            /\ last' = [last EXCEPT ![t] =
                          ExitOf(Top(t), Len(stack[t]),
                                 [kind |-> "raise", val |-> "NameError"], fpu)]
            /\ fpu' = fpu
       ELSE /\ stack' = [stack EXCEPT ![t][Len(stack[t])] =
                          [@ EXCEPT !.pc = "set",
                                    !.saved = FeGetRound(fegetround, fpu),
                                    !.log = Append(@, "get"),
                                    !.sawOther = OtherInside(t)]]
            /\ fpu' = fpu
            /\ last' = last
    /\ UNCHANGED <<startVars, reduceVars, powerVars, floatVars>>

\* Line 87 / 97: _fesetround(_fe_downward) resp. _fesetround(_fe_upward).
SetRound(t) ==
    /\ HasTop(t, "set")
    /\ fpu' = FeSetRound(fesetround, fpu, DirCode(Top(t).fn))
    /\ stack' = AfterWrite(t, [stack[t] EXCEPT ![Len(stack[t])] =
                                 [@ EXCEPT !.pc = "call", !.log = Append(@, "set")]])
    /\ UNCHANGED <<startVars, last, reduceVars, powerVars, floatVars>>

\* Line 88 / 98: f is called.
Invoke(t) ==
    /\ HasTop(t, "call")
    /\ stack' = [stack EXCEPT ![t][Len(stack[t])] =
                   [@ EXCEPT !.pc = "f", !.log = Append(@, "f"), !.modeAtF = fpu]]
    /\ UNCHANGED <<startVars, fpu, last, reduceVars, powerVars, floatVars>>

\* The computation returns a value.
FReturn(t, v) ==
    /\ HasTop(t, "f")
    /\ stack' = [stack EXCEPT ![t][Len(stack[t])] =
                   [@ EXCEPT !.pc = "finally",
                             !.fout = [kind |-> "return", val |-> v]]]
    /\ UNCHANGED <<startVars, fpu, last, reduceVars, powerVars, floatVars>>

\* The computation raises.
FRaise(t) ==
    /\ HasTop(t, "f")
    /\ stack' = [stack EXCEPT ![t][Len(stack[t])] =
                   [@ EXCEPT !.pc = "finally",
                             !.fout = [kind |-> "raise", val |-> "Error"]]]
    /\ UNCHANGED <<startVars, fpu, last, reduceVars, powerVars, floatVars>>

\* The computation changes the rounding mode itself and goes on.
FSetsMode(t, fn) ==
    /\ HasTop(t, "f")
    /\ fpu' = FeSetRound(fesetround, fpu, DirCode(fn))
    /\ fpu' # fpu
    /\ stack' = AfterWrite(t, stack[t])
    /\ UNCHANGED <<startVars, last, reduceVars, powerVars, floatVars>>

\* The restore placed after the call instead of in a finally clause.
AfterExitNoFinally(backend, cw, saved, kind) ==
    IF kind = "return" THEN FeSetRound(backend, cw, saved) ELSE cw

\* The same with no finally clause at all.
AfterExitKeepsMode(backend, cw, saved, kind) == cw

\* The register after the executor has left, given how f ended: the finally
\* clause restores the saved mode on both paths.
AfterExit(backend, cw, saved, kind) == FeSetRound(backend, cw, saved)

\* Line 90 / 100: _fesetround(saved), then the executor returns f's value or
\* lets f's exception propagate.
Restore(t) ==
    /\ HasTop(t, "finally")
    /\ LET fr == [Top(t) EXCEPT !.log = Append(@, "restore")]
       IN /\ fpu' = AfterExit(fesetround, fpu, fr.saved, fr.fout.kind)
          /\ last' = [last EXCEPT ![t] = ExitOf(fr, Len(stack[t]), fr.fout, fpu')]
          /\ stack' = AfterWrite(t, Pop(stack[t]))
    /\ UNCHANGED <<startVars, reduceVars, powerVars, floatVars>>

\* The helpers at rest.
Idle ==
    /\ rl = <<>> /\ rres = [op |-> "none", kind |-> "none", val |-> "none"]
    /\ px = 0 /\ pn = 0 /\ pres = NoOutcome
    /\ fx = Zero /\ fdir = 1 /\ fres = [op |-> "none", kind |-> "none", val |-> "none"]

InitProgram ==
    /\ host \in Hosts
    /\ fpu \in StartWords(host)
    /\ fpu0 = fpu
    /\ ipc = "libm_codes"
    /\ fe_upward = Unbound
    /\ fe_downward = Unbound
    /\ fegetround = "unbound"
    /\ fesetround = "unbound"
    /\ controlfp = "unbound"
    /\ warned = 0
    /\ tried = <<>>
    /\ failed = {}
    /\ stack = [t \in Threads |-> <<>>]
    /\ last = [t \in Threads |-> NoExit]

\* The program with one thread: the module is imported, then down and up
\* are called, from the top level and from inside computations.
Init ==
    /\ InitProgram
    /\ Idle

Next ==
    \/ Startup
    \/ \E fn \in Executors : Call(1, fn, MaxDepth)
    \/ GetRound(1)
    \/ SetRound(1)
    \/ Invoke(1)
    \/ \E v \in Results : FReturn(1, v)
    \/ FRaise(1)
    \/ \E fn \in Executors : FSetsMode(1, fn)
    \/ Restore(1)

Spec == Init /\ [][Next]_vars

\* The program with two threads, each calling one executor once on the one
\* register; the computations only return or raise.
CallOnce(t, fn) ==
    /\ ~last[t].seen
    /\ Call(t, fn, 1)

NextThreads ==
    \/ Startup
    \/ \E t \in Threads, fn \in Executors : CallOnce(t, fn)
    \/ \E t \in Threads : GetRound(t)
    \/ \E t \in Threads : SetRound(t)
    \/ \E t \in Threads : Invoke(t)
    \/ \E t \in Threads : FReturn(t, "r1")
    \/ \E t \in Threads : FRaise(t)
    \/ \E t \in Threads : Restore(t)

SpecThreads == Init /\ [][NextThreads]_vars

(***************************************************************************)
(* The helpers, called on a loaded module.                                 *)
(***************************************************************************)
\* The module as loaded on an x86 host with libm.
Loaded ==
    /\ host = "x86"
    /\ fpu = W(0, 0)
    /\ fpu0 = W(0, 0)
    /\ ipc = "loaded"
    /\ fe_upward = LibmCodes(Processor("x86")).up
    /\ fe_downward = LibmCodes(Processor("x86")).down
    /\ fegetround = "libm"
    /\ fesetround = "libm"
    /\ controlfp = "unbound"
    /\ warned = 0
    /\ tried = <<"libm">>
    /\ failed = {}
    /\ stack = [t \in Threads |-> <<>>]
    /\ last = [t \in Threads |-> NoExit]

ReduceValues == {NaN, Inf(-1), Inf(1), Fin(0), Fin(-(2^UnitShift)), Fin(2^(UnitShift + 1))}

SeqsUpTo(S, n) == UNION {[1..m -> S] : m \in 0..n}

InitReduce ==
    /\ Loaded
    /\ rl \in SeqsUpTo(ReduceValues, MaxLen)
    /\ rres = [op |-> "none", kind |-> "none", val |-> "none"]
    /\ px = 0 /\ pn = 0 /\ pres = NoOutcome
    /\ fx = Zero /\ fdir = 1 /\ fres = [op |-> "none", kind |-> "none", val |-> "none"]

CallMin ==
    /\ rres.op = "none"
    /\ rres' = [op |-> "min"] @@ Reduce("min", rl)
    /\ UNCHANGED <<startVars, fpu, execVars, rl, powerVars, floatVars>>

CallMax ==
    /\ rres.op = "none"
    /\ rres' = [op |-> "max"] @@ Reduce("max", rl)
    /\ UNCHANGED <<startVars, fpu, execVars, rl, powerVars, floatVars>>

NextReduce ==
    \/ CallMin
    \/ CallMax

SpecReduce == InitReduce /\ [][NextReduce]_vars

InitPower ==
    /\ Loaded
    /\ px \in (-MaxX)..MaxX
    /\ pn \in (-MaxN)..MaxN
    /\ pres = NoOutcome
    /\ rl = <<>> /\ rres = [op |-> "none", kind |-> "none", val |-> "none"]
    /\ fx = Zero /\ fdir = 1 /\ fres = [op |-> "none", kind |-> "none", val |-> "none"]

CallPower ==
    /\ pres.kind = "none"
    /\ pres' = Power(px, pn)
    /\ UNCHANGED <<startVars, fpu, execVars, reduceVars, px, pn, floatVars>>

NextPower == CallPower

SpecPower == InitPower /\ [][NextPower]_vars

Directions == {-1, 1, 2}

InitFloat ==
    /\ Loaded
    /\ fx \in FiniteFloats
    /\ fdir \in Directions
    /\ fres = [op |-> "none", kind |-> "none", val |-> "none"]
    /\ rl = <<>> /\ rres = [op |-> "none", kind |-> "none", val |-> "none"]
    /\ px = 0 /\ pn = 0 /\ pres = NoOutcome

CallIntrepr ==
    /\ fres.op = "none"
    /\ fres' = [op |-> "intrepr"] @@ Return(Intrepr(fx))
    /\ UNCHANGED <<startVars, fpu, execVars, reduceVars, powerVars, fx, fdir>>

CallNudge ==
    /\ fres.op = "none"
    /\ fres' = [op |-> "nudge"] @@ Nudge(fx, fdir)
    /\ UNCHANGED <<startVars, fpu, execVars, reduceVars, powerVars, fx, fdir>>

NextFloat ==
    \/ CallIntrepr
    \/ CallNudge

SpecFloat == InitFloat /\ [][NextFloat]_vars

(***************************************************************************)
(* Properties of the start-up and of the executors.                        *)
(***************************************************************************)
FullLog == <<"get", "set", "f", "restore">>

LogAt(pc) ==
    CASE pc = "get" -> <<>>
      [] pc = "set" -> SubSeq(FullLog, 1, 1)
      [] pc = "call" -> SubSeq(FullLog, 1, 2)
      [] OTHER -> SubSeq(FullLog, 1, 3)

\* The mode a computation of executor fn is to run under.
Directional(fn) == IF fn = "down" THEN fe_downward ELSE fe_upward

\* C1: with one thread, whenever down(f) or up(f) has exited, by returning
\* or by an exception, the register holds the mode it held immediately
\* before the executor started.
C1_ModeRestoredOnExit ==
    last[1].seen => last[1].exitMode = last[1].entry

\* An executor nested in a computation has exited by the failure of its own
\* computation, which ran under a mode other than the one restored.
C1_Witness ==
    /\ last[1].seen
    /\ last[1].bound
    /\ last[1].depth > 1
    /\ last[1].out.kind = "raise"
    /\ last[1].modeAtF # last[1].entry
    /\ last[1].exitMode = last[1].entry

\* C10: with a backend bound, one call of down(f) or up(f) reads the mode,
\* sets the directional code, invokes f once and restores, in this order; f
\* starts under the executor's directional code; the executor ends the way
\* f ended, and returns f's value when f returned.
C10_StepOrder ==
    /\ \A i \in 1..Len(stack[1]) :
         LET fr == stack[1][i]
         IN /\ fr.log = LogAt(fr.pc)
            /\ fr.pc \in {"set", "call", "f", "finally"} => fr.saved # Unbound
            /\ fr.pc \in {"f", "finally"} =>
                 ModeOf(fegetround, fr.modeAtF) = Directional(fr.fn)
    /\ (last[1].seen /\ last[1].bound) =>
         /\ last[1].log = FullLog
         /\ ModeOf(fegetround, last[1].modeAtF) = Directional(last[1].fn)
         /\ last[1].out = last[1].fout
         /\ last[1].out.kind \in {"return", "raise"}

\* up(f) has returned the value r2 that f returned.
C10_Witness ==
    /\ last[1].seen
    /\ last[1].bound
    /\ last[1].fn = "up"
    /\ last[1].log = FullLog
    /\ last[1].out = [kind |-> "return", val |-> "r2"]
    /\ last[1].modeAtF # last[1].entry

\* The codes of the table of _init_libm, by host.
TableUp(h) ==
    CASE h = "powerpc" -> W(0, 2)
      [] h = "sparc" -> W(32768, 0)
      [] OTHER -> W(0, 2048)

TableDown(h) ==
    CASE h = "powerpc" -> W(0, 3)
      [] h = "sparc" -> W(49152, 0)
      [] OTHER -> W(0, 1024)

\* C3: the strategies run in the order libm, msvc; the first that returns
\* without error is the backend in force (entry points and codes) and no
\* later one is run; a failing strategy never aborts the start-up; when both
\* fail the module is loaded all the same, with one warning and with
\* _fegetround and _fesetround unbound.
C3_BackendSelection ==
    /\ ipc # "aborted"
    /\ tried \in {<<>>, <<"libm">>, <<"libm", "msvc">>}
    /\ failed \subseteq {tried[i] : i \in 1..Len(tried)}
    /\ warned = (IF ipc = "loaded" /\ failed = {"libm", "msvc"} THEN 1 ELSE 0)
    /\ ipc = "loaded" =>
         /\ "libm" \notin failed =>
              /\ tried = <<"libm">>
              /\ fegetround = "libm" /\ fesetround = "libm"
              /\ fe_upward = TableUp(host) /\ fe_downward = TableDown(host)
         /\ ("libm" \in failed /\ "msvc" \notin failed) =>
              /\ tried = <<"libm", "msvc">>
              /\ fegetround = "msvc" /\ fesetround = "msvc"
              /\ controlfp = "msvcrt"
              /\ fe_upward = W(0, 512) /\ fe_downward = W(0, 256)
         /\ failed = {"libm", "msvc"} =>
              /\ fegetround = "unbound" /\ fesetround = "unbound"

\* libm failed and msvc, tried next, became the backend.
C3_Witness ==
    /\ ipc = "loaded"
    /\ failed = {"libm"}
    /\ tried = <<"libm", "msvc">>
    /\ fegetround = "msvc"
    /\ warned = 0

\* Every strategy failed: loaded, warned once, nothing bound.
C3_WitnessDegraded ==
    /\ ipc = "loaded"
    /\ failed = {"libm", "msvc"}
    /\ warned = 1
    /\ fegetround = "unbound"

\* libm succeeded and msvc was never run.
C3_WitnessFirst ==
    /\ ipc = "loaded"
    /\ failed = {}
    /\ tried = <<"libm">>
    /\ fegetround = "libm"

BothDone == \A t \in Threads : last[t].seen /\ stack[t] = <<>>

RanUnderOtherMode(r) ==
    /\ r.bound
    /\ r.modeAtF # Unbound
    /\ ModeOf(fegetround, r.modeAtF) # Directional(r.fn)

\* C2: with two threads on the one register and no lock, a computation runs
\* under a mode other than its executor's code only when the other thread
\* wrote the register between this executor's set and the start of its
\* computation, and the register after both executors differs from the one
\* before either only when one executor read its saved mode while the other
\* had set and not yet restored; C2_Witness is the interleaving in which
\* both happen.
C2_OnlyByRace ==
    /\ \A t \in Threads :
         /\ \A i \in 1..Len(stack[t]) :
              (stack[t][i].pc \in {"f", "finally"}
                 /\ ModeOf(fegetround, stack[t][i].modeAtF) # Directional(stack[t][i].fn))
              => stack[t][i].intruded
         /\ (last[t].seen /\ RanUnderOtherMode(last[t])) => last[t].intruded
    /\ (BothDone /\ fpu # fpu0) => \E t \in Threads : last[t].sawOther

\* Both executors have completed; one computation ran under a mode other
\* than its executor's code and the register differs from the initial one.
C2_Witness ==
    /\ BothDone
    /\ fpu # fpu0
    /\ \E t \in Threads : RanUnderOtherMode(last[t])

(***************************************************************************)
(* Properties of the helpers.                                              *)
(***************************************************************************)
HasNaN(l) == \E i \in 1..Len(l) : l[i].cls = "nan"

\* C4: on a non-empty sequence min (max) returns NaN when some element is
\* NaN, at whatever position, and otherwise returns an element of the
\* sequence that no element is below (above).
C4_MinMaxNaN ==
    (rres.op # "none" /\ rl # <<>>) =>
        /\ rres.kind = "return"
        /\ IF HasNaN(rl) THEN rres.val.cls = "nan"
           ELSE /\ \E i \in 1..Len(rl) : rres.val = rl[i]
                /\ \A i \in 1..Len(rl) :
                     IF rres.op = "min" THEN Ord(rres.val) <= Ord(rl[i])
                     ELSE Ord(rres.val) >= Ord(rl[i])

\* min has returned NaN for a sequence whose last element only is NaN.
C4_Witness ==
    /\ rres.op = "min"
    /\ Len(rl) = 3
    /\ rl[1].cls # "nan" /\ rl[2].cls # "nan" /\ rl[3].cls = "nan"
    /\ Ord(rl[2]) < Ord(rl[1])
    /\ rres.kind = "return"
    /\ rres.val.cls = "nan"

\* max has returned the largest element of a sequence without NaN.
C4_WitnessMax ==
    /\ rres.op = "max"
    /\ rl = <<Fin(0), Inf(1), Inf(-1)>>
    /\ rres.kind = "return"
    /\ rres.val = Inf(1)

\* C5: min and max of the empty sequence end with the ValueError of the
\* empty reduction; the except NanException clause does not turn it into
\* NaN.
C5_EmptyRaises ==
    (rres.op # "none" /\ rl = <<>>) =>
        /\ rres.kind = "raise"
        /\ rres.val = "ValueError"

C5_Witness ==
    /\ rres.op = "max"
    /\ rl = <<>>
    /\ rres.kind = "raise"

RECURSIVE RepeatedProduct(_, _)
RepeatedProduct(x, n) == IF n = 0 THEN 1 ELSE x * RepeatedProduct(x, n - 1)

\* C6: for n >= 0, power(x, n) is the product of n factors x, starting
\* from 1; power(x, 0) is 1.
C6_PowerIsRepeatedProduct ==
    (pres.kind # "none" /\ pn >= 0) =>
        /\ pres.kind = "return"
        /\ pres.val = RepeatedProduct(px, pn)
        /\ pn = 0 => pres.val = 1

C6_Witness ==
    /\ px = -3
    /\ pn = 6
    /\ pres.kind = "return"
    /\ pres.val = 729

C6_WitnessZero ==
    /\ px = 0
    /\ pn = 0
    /\ pres.kind = "return"
    /\ pres.val = 1

\* n * 2^e = x exactly, x a finite float.
ExactlyEqual(n, e, x) ==
    LET d == e - (EMin - NMant)
    IN IF d >= 0 THEN n * 2^d = x.k ELSE n = x.k * 2^(-d)

\* C7: for every finite nonzero x, intrepr(x) = (n, e) with n * 2^e = x
\* exactly (n and e are integers: int(...) and an integer difference).
C7_IntreprRoundTrip ==
    (fres.op = "intrepr" /\ fx.k # 0) =>
        /\ fres.val[1] \in Int
        /\ fres.val[2] \in Int
        /\ ExactlyEqual(fres.val[1], fres.val[2], fx)

\* intrepr of the smallest subnormal.
C7_Witness ==
    /\ fres.op = "intrepr"
    /\ fx = Fin(1)
    /\ fres.val = <<2^NMant, EMin - 2 * NMant>>

OneAndHalf == Fin(3 * 2^(UnitShift - 1))

\* C8 as stated: intrepr(1.5) = (n, e) with n * 2^e = 1.5 and n odd.
C8_OddMantissa ==
    (fres.op = "intrepr" /\ fx = OneAndHalf) =>
        /\ ExactlyEqual(fres.val[1], fres.val[2], fx)
        /\ fres.val[1] % 2 = 1

\* C8 amended: intrepr(1.5) = (n, e) with n * 2^e = 1.5, where n is the
\* significand scaled to nmant + 1 bits, 3 * 2^(nmant - 1), and e = -nmant;
\* n is even.
C8_ScaledMantissa ==
    (fres.op = "intrepr" /\ fx = OneAndHalf) =>
        /\ ExactlyEqual(fres.val[1], fres.val[2], fx)
        /\ fres.val[1] = 3 * 2^(NMant - 1)
        /\ fres.val[2] = -NMant
        /\ fres.val[1] % 2 = 0

C8_Witness ==
    /\ fres.op = "intrepr"
    /\ fx = OneAndHalf
    /\ fres.val[1] >= 2^NMant

\* C9 as stated: for every finite x and dir in {+1, -1}, nudge(x, dir)
\* differs from x, is above x for +1 and below x for -1.
C9_NudgeMoves ==
    (fres.op = "nudge" /\ fdir \in {-1, 1}) =>
        /\ fres.kind = "return"
        /\ FNe(fres.val, fx)
        /\ fdir = 1 => FLt(fx, fres.val)
        /\ fdir = -1 => FLt(fres.val, fx)

IsSubnormal(x) == x.k # 0 /\ Abs(x.k) < 2^NMant

\* The neighbour of a finite float in direction dir.
Neighbour(x, dir) ==
    LET b == BitLen(Abs(x.k))
        ulp == IF b > NMant + 1 THEN 2^(b - NMant - 1) ELSE 1
        below == IF b > NMant + 1 /\ Abs(x.k) = 2^(b - 1) THEN ulp \div 2 ELSE ulp
        k == IF dir * Sign(x.k) > 0 \/ x.k = 0 THEN x.k + dir * ulp ELSE x.k + dir * below
    IN IF Abs(k) > MaxK THEN Inf(dir) ELSE Fin(k)

\* What the code does where C9 fails and where it holds: a subnormal comes
\* back unchanged; every normal x moves to its neighbour; zero moves by
\* 2^-(nmant + 2).
NudgeBehaviour ==
    (fres.op = "nudge" /\ fdir \in {-1, 1}) =>
        /\ fres.kind = "return"
        /\ IsSubnormal(fx) => fres.val = fx
        /\ (fx.k # 0 /\ ~IsSubnormal(fx)) => fres.val = Neighbour(fx, fdir)
        /\ fx.k = 0 => fres.val = Fin(fdir * 2^(UnitShift - NMant - 2))

NudgeSubnormalReached ==
    /\ fres.op = "nudge"
    /\ fdir = 1
    /\ fx = Fin(1)
    /\ fres.val = fx

====
